---- MODULE Spec2Model ----
(***************************************************************************)
(* Model of the reactive callback workflow of the pricing-actuarial        *)
(* dashboard (src/pricing_actuarial_app_v2): the conversational assistant, *)
(* the uploaded-file list, the scenario container with its steppers, and   *)
(* the extraction pipeline.  Every handler is one atomic action: the UI    *)
(* runtime dispatches one handler at a time and runs it to completion.     *)
(* The pipeline handler is split at its warehouse statements; while it     *)
(* runs (pc # "idle") no other action of its specification is enabled.     *)
(***************************************************************************)
EXTENDS Integers, Sequences, FiniteSets, TLC

VARIABLES
    connection,              \* ClaudeChatbot.connection/cursor available
    conversation_history,    \* ClaudeChatbot.conversation_history
    appended,                \* ghost: every entry ever passed to add_message
    turns,                   \* ghost: number of get_response calls so far
    workspace_client,        \* FileUploadManager.workspace_client is not None
    volume,                  \* names of the blobs under the upload prefix
    uploaded_files_info,     \* the process-wide uploaded-file list
    upload_data,             \* per session: filenames held by the upload control
    pdf_list,                \* per session: children of "uploaded-pdfs-list"
    pdf_management,          \* per session: display style of "pdf-management"
    upload_feedback,         \* per session: text of "upload-feedback"
    scenarios_container,     \* children of "scenarios-container"
    changes,                 \* ghost: number of stepper clicks and typed values so far
    pc,                      \* parse_and_run_ai: "idle", or the step it is about to run
    run_files,               \* parse_and_run_ai: the filenames State it was called with
    issued,                  \* ghost: the external calls of the current run, with outcomes
    row_count,               \* parse_and_run_ai: row_count
    workflow_status,         \* text of "workflow_status"
    use_dbutils,             \* nwag-uw FileUploadManager.use_dbutils
    nwag_client,             \* nwag-uw FileUploadManager.workspace_client is not None
    blobs,                   \* the blobs of the workspace volumes: (path, content)
    scratch,                 \* the scratch files left on the local disk
    puts,                    \* ghost: number of upload_file_to_volume calls so far
    db_calls,                \* ghost: number of DatabaseManager calls so far
    open_conns,              \* connections opened by a call and not closed
    open_cursors,            \* cursors opened by a call and not closed
    applied,                 \* the statements that have taken effect in the warehouse
    app_config,              \* the AppConfig instance, once constructed
    btn_disabled,            \* "parse_ai_btn" is disabled and shows the busy label
    pending,                 \* the handlers triggered and not yet dispatched
    reference_specs,         \* text of the three fields of the reference feature panel
    specs_issued,            \* ghost: the statements of the last panel update, with outcomes
    last                     \* ghost: the last handler call and what it returned

chatVars == <<connection, conversation_history, appended, turns>>
fileVars == <<workspace_client, volume, uploaded_files_info, upload_data,
              pdf_list, pdf_management, upload_feedback>>
scenVars == <<scenarios_container, changes>>
pipeVars == <<pc, run_files, issued, row_count, workflow_status>>
storeVars == <<use_dbutils, nwag_client, blobs, scratch, puts>>
dbVars == <<db_calls, open_conns, open_cursors, applied>>
btnVars == <<btn_disabled, pending>>
panelVars == <<reference_specs, specs_issued>>
extVars == <<storeVars, dbVars, app_config, btnVars, panelVars>>
vars == <<chatVars, fileVars, scenVars, pipeVars, extVars, last>>

(***************************************************************************)
(* Bounds of the model                                                     *)
(***************************************************************************)
MaxTurns == 8
MaxBatch == 3
MaxScenarios == 2
MaxChanges == 2
MaxPipelineBatch == 2
MaxRows == 1
MaxPuts == 3
MaxDbCalls == 2
MaxQueries == 2
MaxAsk == 2
MaxSharedBatch == 1

(***************************************************************************)
(* Conversational assistant (claude_integration.py)                        *)
(***************************************************************************)
HistoryLimit == 20

\* User messages are character sequences, so that keyword containment and
\* lower-casing are computed and not assumed.
MsgRate == <<"R", "a", "t", "e">>
MsgHi == <<"h", "i">>
Messages == {MsgRate, MsgHi}

\* str.lower() and str.upper() on the letters of the messages used.
UpperLetters == <<"A", "B", "C", "D", "E", "F", "G", "H", "I", "J", "K", "L", "M",
                 "N", "O", "P", "Q", "R", "S", "T", "U", "V", "W", "X", "Y", "Z">>
LowerLetters == <<"a", "b", "c", "d", "e", "f", "g", "h", "i", "j", "k", "l", "m",
                 "n", "o", "p", "q", "r", "s", "t", "u", "v", "w", "x", "y", "z">>

LowerChar(c) ==
    IF \E i \in 1..Len(UpperLetters) : UpperLetters[i] = c
    THEN LowerLetters[CHOOSE i \in 1..Len(UpperLetters) : UpperLetters[i] = c]
    ELSE c

UpperChar(c) ==
    IF \E i \in 1..Len(LowerLetters) : LowerLetters[i] = c
    THEN UpperLetters[CHOOSE i \in 1..Len(LowerLetters) : LowerLetters[i] = c]
    ELSE c

Upper(s) == [i \in 1..Len(s) |-> UpperChar(s[i])]

Lower(s) == [i \in 1..Len(s) |-> LowerChar(s[i])]

\* Python's `word in text` on strings: word occurs as a contiguous substring.
Contains(text, word) ==
    \E i \in 0..(Len(text) - Len(word)) :
        \A j \in 1..Len(word) : text[i + j] = word[j]

AnyWord(text, words) == \E w \in words : Contains(text, w)

ActuaryWords == { <<"a","c","t","u","a","r","y">>,
                  <<"a","c","t","u","a","r","i","e","s">>,
                  <<"a","c","t","u","a","r","i","a","l">> }
PricingWords == { <<"p","r","i","c","i","n","g">>, <<"p","r","i","c","e">>,
                  <<"p","r","e","m","i","u","m">>, <<"r","a","t","e">> }
RiskWords == { <<"r","i","s","k">>, <<"a","s","s","e","s","s","m","e","n","t">>,
               <<"u","n","d","e","r","w","r","i","t","i","n","g">> }
GreetingWords == { <<"h","e","l","l","o">>, <<"h","i">>, <<"h","e","l","p">>,
                   <<"a","s","s","i","s","t">> }

\* Messages for the keyword buckets: one or two keywords, in mixed case.
MsgActuaryRate == <<"A", "c", "t", "u", "a", "r", "y", " ", "r", "a", "t", "e">>
MsgPremium == <<"p", "r", "e", "m", "i", "u", "m">>
MsgPricing == <<"P", "R", "I", "C", "I", "N", "G">>
MsgPrice == <<"p", "r", "i", "c", "e">>
MsgRiskRate == <<"r", "i", "s", "k", " ", "r", "a", "t", "e">>
MsgUnderwriting == <<"U", "n", "d", "e", "r", "w", "r", "i", "t", "i", "n", "g">>
MsgAssessment == <<"a", "s", "s", "e", "s", "s", "m", "e", "n", "t">>
MsgHelloRisk == <<"h", "e", "l", "l", "o", " ", "r", "i", "s", "k">>
MsgHello == <<"H", "e", "l", "l", "o">>
MsgOk == <<"o", "k">>
MsgActuarial == <<"a", "c", "t", "u", "a", "r", "i", "a", "l">>
FallbackMessages ==
    {MsgActuaryRate, MsgPremium, MsgPricing, MsgPrice, MsgRiskRate,
     MsgUnderwriting, MsgAssessment, MsgHelloRisk,
     MsgHello, MsgOk, MsgActuarial}

\* The buckets tried in another order: pricing before actuarial.
FallbackTextPricingFirst(user_message) ==
    LET user_lower == Lower(user_message) IN
    IF AnyWord(user_lower, PricingWords) THEN <<"pricing", <<>>>>
    ELSE IF AnyWord(user_lower, ActuaryWords) THEN <<"actuarial", <<>>>>
    ELSE IF AnyWord(user_lower, RiskWords) THEN <<"risk", <<>>>>
    ELSE IF AnyWord(user_lower, GreetingWords) THEN <<"greeting", <<>>>>
    ELSE <<"generic", user_message>>

\* The canned answer: its topic, and the user message it quotes (generic only).
FallbackText(user_message) ==
    LET user_lower == Lower(user_message) IN
    IF AnyWord(user_lower, ActuaryWords) THEN <<"actuarial", <<>>>>
    ELSE IF AnyWord(user_lower, PricingWords) THEN <<"pricing", <<>>>>
    ELSE IF AnyWord(user_lower, RiskWords) THEN <<"risk", <<>>>>
    ELSE IF AnyWord(user_lower, GreetingWords) THEN <<"greeting", <<>>>>
    ELSE <<"generic", user_message>>

UserContent(user_message) == <<"user_text", user_message>>
ModelAnswer == <<"model_answer", <<>>>>
NoText == <<"", <<>>>>

Entry(role, content) == [role |-> role, content |-> content]

LastN(s, n) == IF Len(s) > n THEN SubSeq(s, Len(s) - n + 1, Len(s)) ELSE s

\* add_message, as a function of the history: append, then keep the last 20.
TrimFirst(h) == IF Len(h) > HistoryLimit THEN SubSeq(h, 1, HistoryLimit) ELSE h
Trim(h) == IF Len(h) > HistoryLimit THEN LastN(h, HistoryLimit) ELSE h

AddMessageTo(h, role, content) == Trim(Append(h, Entry(role, content)))

RECURSIVE AddAll(_, _)
AddAll(h, entries) ==
    IF entries = <<>> THEN h
    ELSE AddAll(AddMessageTo(h, Head(entries).role, Head(entries).content), Tail(entries))

\* The outcome of a stretch of code: the entries it passed to add_message, in
\* order, what it returned, and whether it ended by raising.
Outcome(entries, ret, raised, mode) ==
    [entries |-> entries, ret |-> ret, raised |-> raised, mode |-> mode]

\* _get_fallback_response: records the user message, picks the canned answer,
\* records and returns it.
FallbackResponse(user_message, mode) ==
    Outcome(<< Entry("user", UserContent(user_message)),
               Entry("assistant", FallbackText(user_message)) >>,
            FallbackText(user_message), FALSE, mode)

\* What the cursor does with the query: a row, no row, or an exception.
CursorOutcomes == {"row", "empty", "raise"}

\* The prompt sent to the hosted model in PRIMARY mode (context_data is None
\* at the only call site): system preamble and the user question.
FullPrompt(h, user_message) == <<"system_prompt", user_message>>

\* The try block of get_response.
TryBody(conn, cursor, user_message) ==
    LET first == << Entry("user", UserContent(user_message)) >> IN
    IF ~conn
    THEN LET f == FallbackResponse(user_message, "fallback_no_connection")
         IN  Outcome(first \o f.entries, f.ret, FALSE, f.mode)
    ELSE IF cursor = "row"
    THEN Outcome(first \o << Entry("assistant", ModelAnswer) >>, ModelAnswer, FALSE, "primary")
    ELSE IF cursor = "empty"
    THEN Outcome(first, NoText, TRUE, "fallback_empty_result")
    ELSE Outcome(first, NoText, TRUE, "fallback_exception")

\* The except clause of get_response: answer with the fallback.
OnExceptionReraise(t, user_message) == t
OnException(t, user_message) ==
    LET f == FallbackResponse(user_message, t.mode)
    IN  Outcome(t.entries \o f.entries, f.ret, FALSE, t.mode)

GetResponseOutcome(conn, cursor, user_message) ==
    LET t == TryBody(conn, cursor, user_message)
    IN  IF t.raised THEN OnException(t, user_message) ELSE t

get_response(user_message, cursor) ==
    LET r == GetResponseOutcome(connection, cursor, user_message)
    IN  /\ turns < MaxTurns
        /\ conversation_history' = AddAll(conversation_history, r.entries)
        /\ appended' = appended \o r.entries
        /\ turns' = turns + 1
        /\ last' = [op |-> "get_response", message |-> user_message,
                    mode |-> r.mode, raised |-> r.raised, ret |-> r.ret,
                    prompt |-> IF connection
                               THEN FullPrompt(conversation_history, user_message)
                               ELSE <<"none", <<>>>>,
                    pre_len |-> Len(appended)]
        /\ UNCHANGED <<connection, fileVars, scenVars, pipeVars, extVars>>

GetResponse == \E m \in Messages, o \in CursorOutcomes : get_response(m, o)

\* One question out of the keyword messages, within a short conversation.
AskFallback ==
    \E m \in FallbackMessages, o \in CursorOutcomes :
        /\ turns < MaxAsk
        /\ get_response(m, o)

NoCall == [op |-> "none", message |-> <<>>, mode |-> "none", raised |-> FALSE,
           ret |-> NoText, prompt |-> <<"none", <<>>>>, pre_len |-> 0]

InitChat ==
    /\ connection \in BOOLEAN
    /\ conversation_history = <<>>
    /\ appended = <<>>
    /\ turns = 0

(***************************************************************************)
(* Uploaded-file list (callbacks.py, file_upload.py)                       *)
(***************************************************************************)
Sessions == {"A", "B"}
Filenames == {"a.pdf", "b.pdf", "n.txt"}

\* What a browser file selection can hold: up to MaxBatch distinct names.
Batches ==
    UNION { { b \in [1..n -> Filenames] : \A i, j \in 1..n : i # j => b[i] # b[j] }
            : n \in 0..MaxBatch }

VolumePath == "/Volumes/shirlywang_insurance/fa_pricing/user_uploaded_brochures"
NoPath == <<>>
FullPath(filename) == <<VolumePath, filename>>

\* FileUploadManager.upload_file_to_volume: the path, or the error raised.
\* `sdk` is what files.upload does with the request.
UploadFileToVolume(filename, sdk) ==
    IF ~workspace_client
    THEN [ok |-> FALSE, path |-> NoPath, error |-> "Databricks connection not available"]
    ELSE IF sdk = "ok"
    THEN [ok |-> TRUE, path |-> FullPath(filename), error |-> ""]
    ELSE [ok |-> FALSE, path |-> NoPath, error |-> "upload error"]

\* FileUploadManager.delete_file_from_volume: True, False, or raised.
DeleteFileFromVolume(filename, sdk) ==
    IF ~workspace_client THEN "raised"
    ELSE IF sdk = "ok" /\ filename \in volume THEN "true"
    ELSE "false"

FileInfo(filename, up) ==
    IF up.ok
    THEN [filename |-> filename, volume_path |-> up.path, status |-> "uploaded", error |-> ""]
    ELSE [filename |-> filename, volume_path |-> NoPath, status |-> "failed", error |-> up.error]

\* The upload loop of handle_upload_feedback: one entry per file, in order;
\* an exception of one file is caught inside the loop body.
RECURSIVE UploadLoopStopAtFailure(_, _, _)
UploadLoopStopAtFailure(batch, sdk, j) ==
    IF j > Len(batch) THEN <<>>
    ELSE LET up == UploadFileToVolume(batch[j], sdk[j])
         IN  IF up.ok THEN <<FileInfo(batch[j], up)>> \o UploadLoopStopAtFailure(batch, sdk, j + 1)
             ELSE <<FileInfo(batch[j], up)>>
RECURSIVE UploadLoop(_, _, _)
UploadLoop(batch, sdk, j) ==
    IF j > Len(batch) THEN <<>>
    ELSE <<FileInfo(batch[j], UploadFileToVolume(batch[j], sdk[j]))>>
            \o UploadLoop(batch, sdk, j + 1)

\* One displayed item per entry; its remove button carries the position (from 0).
PdfItems(uploaded_files) ==
    [j \in 1..Len(uploaded_files) |->
        [filename |-> uploaded_files[j].filename, index |-> j - 1]]

SuccessCount(uploaded_files) ==
    Cardinality({j \in 1..Len(uploaded_files) : uploaded_files[j].status = "uploaded"})

UploadStatusMessage(uploaded_files) ==
    LET success_count == SuccessCount(uploaded_files) IN
    IF success_count = Len(uploaded_files)
    THEN [kind |-> "all_uploaded", k |-> success_count, n |-> Len(uploaded_files)]
    ELSE [kind |-> "k_of_n_uploaded", k |-> success_count, n |-> Len(uploaded_files)]

NoMessage == [kind |-> "", k |-> 0, n |-> 0]

\* handle_upload_feedback, fired by a change of the upload control's contents
\* in session s (an empty batch: the call at page load, contents None).
handle_upload_feedback(s, batch, sdk) ==
    LET uploaded_files == UploadLoop(batch, sdk, 1) IN
    /\ upload_data' = [upload_data EXCEPT ![s] = batch]
    /\ IF batch # <<>>
       THEN /\ volume' = volume \cup
                    {uploaded_files[j].filename : j \in
                        {k \in 1..Len(uploaded_files) : uploaded_files[k].status = "uploaded"}}
            /\ uploaded_files_info' = uploaded_files
            /\ pdf_list' = [pdf_list EXCEPT ![s] = PdfItems(uploaded_files)]
            /\ pdf_management' = [pdf_management EXCEPT ![s] = "block"]
            /\ upload_feedback' = [upload_feedback EXCEPT ![s] = UploadStatusMessage(uploaded_files)]
       ELSE /\ pdf_list' = [pdf_list EXCEPT ![s] = <<>>]
            /\ pdf_management' = [pdf_management EXCEPT ![s] = "none"]
            /\ upload_feedback' = [upload_feedback EXCEPT ![s] = NoMessage]
            /\ UNCHANGED <<volume, uploaded_files_info>>
    /\ last' = [op |-> "handle_upload_feedback", session |-> s, batch |-> batch,
                sdk |-> sdk,
                attempted |-> [j \in 1..Len(uploaded_files) |-> uploaded_files[j].filename]]
    /\ UNCHANGED <<workspace_client, chatVars, scenVars, pipeVars, extVars>>

\* The entries of a list whose position (from 0) is not file_index, in order.
RECURSIVE WithoutIndexFromOne(_, _)
WithoutIndexFromOne(list, file_index) ==
    IF list = <<>> THEN <<>>
    ELSE WithoutIndexFromOne(SubSeq(list, 1, Len(list) - 1), file_index)
         \o (IF Len(list) # file_index THEN <<list[Len(list)]>> ELSE <<>>)
RECURSIVE WithoutIndex(_, _)
WithoutIndex(list, file_index) ==
    IF list = <<>> THEN <<>>
    ELSE WithoutIndex(SubSeq(list, 1, Len(list) - 1), file_index)
         \o (IF Len(list) - 1 # file_index THEN <<list[Len(list)]>> ELSE <<>>)

NoFilename == ""

\* remove_pdf_file, fired in session s by the remove button that carries
\* file_index; `sdk` is what files.delete does with the request.
\* A removal that looks the file up in the clicking session's own displayed
\* list instead of the process-wide one.
RemovePdfFileOwnList(s, file_index, sdk) ==
    LET own == {p \in 1..Len(pdf_list[s]) : pdf_list[s][p].index = file_index}
        filename == IF own # {} THEN pdf_list[s][CHOOSE p \in own : TRUE].filename
                    ELSE NoFilename
        deleted == IF filename # NoFilename THEN DeleteFileFromVolume(filename, sdk) ELSE "skipped"
        new_pdf_list == WithoutIndex(pdf_list[s], file_index)
    IN
    /\ volume' = IF deleted = "true" THEN volume \ {filename} ELSE volume
    /\ uploaded_files_info' = WithoutIndex(uploaded_files_info, file_index)
    /\ pdf_list' = [pdf_list EXCEPT ![s] = new_pdf_list]
    /\ pdf_management' = [pdf_management EXCEPT ![s] =
            IF new_pdf_list = <<>> THEN "none" ELSE "block"]
    /\ upload_feedback' = [upload_feedback EXCEPT ![s] =
            IF new_pdf_list = <<>> THEN [kind |-> "all_removed", k |-> 0, n |-> 0]
            ELSE [kind |-> "file_removed_named", k |-> 0, n |-> 0]]
    /\ last' = [op |-> "remove_pdf_file", session |-> s, index |-> file_index,
                filename |-> filename, deleted |-> deleted,
                pre_info |-> uploaded_files_info, pre_list |-> pdf_list[s]]
    /\ UNCHANGED <<workspace_client, upload_data, chatVars, scenVars, pipeVars, extVars>>
remove_pdf_file(s, file_index, sdk) ==
    LET found == Len(uploaded_files_info) > file_index
        filename == IF found THEN uploaded_files_info[file_index + 1].filename ELSE NoFilename
        deleted == IF filename # NoFilename THEN DeleteFileFromVolume(filename, sdk) ELSE "skipped"
        new_pdf_list == WithoutIndex(pdf_list[s], file_index)
        new_uploaded_files == IF found THEN WithoutIndex(uploaded_files_info, file_index) ELSE <<>>
    IN
    /\ volume' = IF deleted = "true" THEN volume \ {filename} ELSE volume
    /\ uploaded_files_info' = new_uploaded_files
    /\ pdf_list' = [pdf_list EXCEPT ![s] = new_pdf_list]
    /\ pdf_management' = [pdf_management EXCEPT ![s] =
            IF new_pdf_list = <<>> THEN "none" ELSE "block"]
    /\ upload_feedback' = [upload_feedback EXCEPT ![s] =
            IF new_pdf_list = <<>> THEN [kind |-> "all_removed", k |-> 0, n |-> 0]
            ELSE IF filename # NoFilename THEN [kind |-> "file_removed_named", k |-> 0, n |-> 0]
            ELSE [kind |-> "file_removed", k |-> 0, n |-> 0]]
    /\ last' = [op |-> "remove_pdf_file", session |-> s, index |-> file_index,
                filename |-> filename, deleted |-> deleted,
                pre_info |-> uploaded_files_info, pre_list |-> pdf_list[s]]
    /\ UNCHANGED <<workspace_client, upload_data, chatVars, scenVars, pipeVars, extVars>>

\* remove_pdf_file fired with an id that does not evaluate to a dict with an
\* "index": the except clause of the handler.
remove_pdf_file_bad_id(s) ==
    /\ uploaded_files_info' = <<>>
    /\ pdf_list' = [pdf_list EXCEPT ![s] = <<>>]
    /\ pdf_management' = [pdf_management EXCEPT ![s] = "none"]
    /\ upload_feedback' = [upload_feedback EXCEPT ![s] =
            [kind |-> "error_removing", k |-> 0, n |-> 0]]
    /\ last' = [op |-> "remove_pdf_file_bad_id", session |-> s,
                pre_info |-> uploaded_files_info, pre_list |-> pdf_list[s]]
    /\ UNCHANGED <<workspace_client, volume, upload_data, chatVars, scenVars, pipeVars, extVars>>

SdkOutcomes == {"ok", "error"}

UploadUpTo(s, n) ==
    \E batch \in {b \in Batches : Len(b) <= n} :
    \E sdk \in [1..Len(batch) -> SdkOutcomes] :
        /\ pc = "idle"
        /\ handle_upload_feedback(s, batch, sdk)

Upload(s) == UploadUpTo(s, MaxBatch)

\* A click on one of the remove buttons displayed in session s.
ClickRemovePdf(s) ==
    \E p \in 1..Len(pdf_list[s]) : \E sdk \in SdkOutcomes :
        /\ pc = "idle"
        /\ remove_pdf_file(s, pdf_list[s][p].index, sdk)

\* A request for the remove handler of session s whose id is malformed.
ForgedRemovePdf(s) ==
    /\ pc = "idle"
    /\ remove_pdf_file_bad_id(s)

InitFiles ==
    /\ workspace_client \in BOOLEAN
    /\ volume = {}
    /\ uploaded_files_info = <<>>
    /\ upload_data = [s \in Sessions |-> <<>>]
    /\ pdf_list = [s \in Sessions |-> <<>>]
    /\ pdf_management = [s \in Sessions |-> "none"]
    /\ upload_feedback = [s \in Sessions |-> NoMessage]

(***************************************************************************)
(* Scenario container and steppers (callbacks.py, ui_components.py)        *)
(***************************************************************************)
DefaultSurrender == 7
DefaultGuarantee == 10
DefaultRateTenths == 35      \* 3.5 %, the rate is kept in tenths of a percent
MaxPeriod == 30
MaxRateTenths == 100         \* 10.0 %

\* The children of the container: the empty-state placeholder, an "Add New
\* Scenario" button block, or a scenario section with its three inputs.
EmptyState == [kind |-> "empty", num |-> 0, surrender |-> 0, guarantee |-> 0, rate |-> 0]
AddButton == [kind |-> "add", num |-> 0, surrender |-> 0, guarantee |-> 0, rate |-> 0]
NewScenario(scenario_num) ==
    [kind |-> "scenario", num |-> scenario_num, surrender |-> DefaultSurrender,
     guarantee |-> DefaultGuarantee, rate |-> DefaultRateTenths]

\* id == 'empty-scenarios-state'
IsEmptyState(s) == s.kind = "empty"
\* str(id).startswith('scenario-')
IsScenario(s) == s.kind = "scenario"
\* A block without id whose first child's text holds 'Add New Scenario'.
IsAddBlock(s) == s.kind = "add"
\* remove_scenario keeps an add block only when its first child, the
\* text-center Div, has id 'add-scenario-btn'; the id is on the Button inside.
FirstChildHasAddButtonId(s) == FALSE

ScenarioCount(container) == Len(SelectSeq(container, IsScenario))

\* add_scenario
AddScenarioKeepEmptyState(existing_scenarios) ==
    existing_scenarios \o
        << NewScenario(ScenarioCount(existing_scenarios) + 1), AddButton >>
\* A numbering that never reuses a number still shown: one more than the
\* highest number shown.
AddScenarioFreshNumber(existing_scenarios) ==
    LET shown == SelectSeq(existing_scenarios, IsScenario)
        highest == IF shown = <<>> THEN 0
                   ELSE CHOOSE n \in {shown[k].num : k \in 1..Len(shown)} :
                            \A k \in 1..Len(shown) : shown[k].num <= n
        NotEmptyState(s) == ~IsEmptyState(s)
    IN  SelectSeq(existing_scenarios, NotEmptyState) \o << NewScenario(highest + 1), AddButton >>
add_scenario(existing_scenarios) ==
    LET scenario_num == ScenarioCount(existing_scenarios) + 1
        NotEmptyState(s) == ~IsEmptyState(s)
    IN  SelectSeq(existing_scenarios, NotEmptyState) \o << NewScenario(scenario_num), AddButton >>

\* remove_scenario, for a well-formed trigger id carrying scenario_num
remove_scenario(scenario_num, existing_scenarios) ==
    LET Kept(s) ==
            IF IsScenario(s) /\ s.num = scenario_num THEN FALSE
            ELSE IF IsAddBlock(s) THEN FirstChildHasAddButtonId(s)
            ELSE TRUE
        MainAdd(s) == IsAddBlock(s) /\ FirstChildHasAddButtonId(s)
        updated_scenarios == SelectSeq(existing_scenarios, Kept)
        main_add_button_found == SelectSeq(existing_scenarios, MainAdd) # <<>>
        remaining_scenarios == ScenarioCount(updated_scenarios)
        with_empty == IF remaining_scenarios = 0
                      THEN <<EmptyState>> \o updated_scenarios
                      ELSE updated_scenarios
    IN  IF main_add_button_found THEN with_empty ELSE with_empty \o <<AddButton>>

\* The scenario sections shown, in layout order: the State lists of the
\* stepper callback hold the values of their inputs in this order.
Shown(container) == SelectSeq(container, IsScenario)
Vals(container, field) == [k \in 1..Len(Shown(container)) |-> Shown(container)[k][field]]

Clamp(lo, hi, v) == IF v < lo THEN lo ELSE IF v > hi THEN hi ELSE v

PadTo(list, n, default) ==
    [k \in 1..(IF Len(list) < n THEN n ELSE Len(list)) |->
        IF k <= Len(list) THEN list[k] ELSE default]

StepperFields == {"surrender", "guarantee", "rate"}
StepperDirs == {"up", "down"}

\* update_stepper_values: the three lists it returns.
update_stepper_values(field, dir, scenario_num, surrender_vals, guarantee_vals, min_rate_vals) ==
    LET surrender_val == IF Len(surrender_vals) >= scenario_num
                         THEN surrender_vals[scenario_num] ELSE DefaultSurrender
        guarantee_val == IF Len(guarantee_vals) >= scenario_num
                         THEN guarantee_vals[scenario_num] ELSE DefaultGuarantee
        min_rate_val == IF Len(min_rate_vals) >= scenario_num
                        THEN min_rate_vals[scenario_num] ELSE DefaultRateTenths
        delta == IF dir = "up" THEN 1 ELSE -1
        surrender == IF field = "surrender"
                     THEN Clamp(0, MaxPeriod, surrender_val + delta) ELSE surrender_val
        guarantee == IF field = "guarantee"
                     THEN Clamp(0, MaxPeriod, guarantee_val + delta) ELSE guarantee_val
        min_rate == IF field = "rate"
                    THEN Clamp(0, MaxRateTenths, min_rate_val + delta) ELSE min_rate_val
    IN  [surrender |-> [PadTo(surrender_vals, scenario_num, DefaultSurrender)
                            EXCEPT ![scenario_num] = surrender],
         guarantee |-> [PadTo(guarantee_vals, scenario_num, DefaultGuarantee)
                            EXCEPT ![scenario_num] = guarantee],
         rate |-> [PadTo(min_rate_vals, scenario_num, DefaultRateTenths)
                            EXCEPT ![scenario_num] = min_rate]]

\* The returned lists are the new values of the inputs shown, by position
\* (entries beyond the inputs shown have no input to go to).
RECURSIVE WithValues(_, _, _)
WithValues(container, out, k) ==
    IF container = <<>> THEN <<>>
    ELSE IF IsScenario(Head(container))
    THEN << [Head(container) EXCEPT !.surrender = out.surrender[k],
                                     !.guarantee = out.guarantee[k],
                                     !.rate = out.rate[k]] >>
            \o WithValues(Tail(container), out, k + 1)
    ELSE << Head(container) >> \o WithValues(Tail(container), out, k)

ScenarioCall(op, num, pos, field, dir) ==
    [op |-> op, num |-> num, pos |-> pos, field |-> field, dir |-> dir,
     pre |-> scenarios_container]

\* handle_scenario_actions, triggered by the add button
ClickAddScenario ==
    /\ ScenarioCount(scenarios_container) < MaxScenarios
    /\ scenarios_container' = add_scenario(scenarios_container)
    /\ last' = ScenarioCall("add_scenario", 0, 0, "", "")
    /\ UNCHANGED <<changes, chatVars, fileVars, pipeVars, extVars>>

\* handle_scenario_actions, triggered by the remove button of a scenario shown
ClickRemoveScenario ==
    \E p \in 1..Len(Shown(scenarios_container)) :
        LET scenario_num == Shown(scenarios_container)[p].num IN
        /\ scenarios_container' = remove_scenario(scenario_num, scenarios_container)
        /\ last' = ScenarioCall("remove_scenario", scenario_num, p, "", "")
        /\ UNCHANGED <<changes, chatVars, fileVars, pipeVars, extVars>>

\* A click on one of the six stepper buttons of a scenario shown
ClickStepper ==
    \E p \in 1..Len(Shown(scenarios_container)) :
    \E field \in StepperFields : \E dir \in StepperDirs :
        LET scenario_num == Shown(scenarios_container)[p].num
            out == update_stepper_values(field, dir, scenario_num,
                        Vals(scenarios_container, "surrender"),
                        Vals(scenarios_container, "guarantee"),
                        Vals(scenarios_container, "rate"))
        IN
        /\ changes < MaxChanges
        /\ changes' = changes + 1
        /\ scenarios_container' = WithValues(scenarios_container, out, 1)
        /\ last' = ScenarioCall("update_stepper_values", scenario_num, p, field, dir)
        /\ UNCHANGED <<chatVars, fileVars, pipeVars, extVars>>

\* The user types an in-range value into one input of a scenario shown
\* (dcc.Input, min=0, max=30 or max=10): here one of the two ends of the range.
TypeValue ==
    \E p \in 1..Len(Shown(scenarios_container)) :
    \E field \in StepperFields : \E end \in {"min", "max"} :
        LET v == IF end = "min" THEN 0
                 ELSE IF field = "rate" THEN MaxRateTenths ELSE MaxPeriod
            out == [f \in StepperFields |->
                       [Vals(scenarios_container, f) EXCEPT ![p] =
                            IF f = field THEN v ELSE @]]
        IN
        /\ changes < MaxChanges
        /\ changes' = changes + 1
        /\ scenarios_container' = WithValues(scenarios_container, out, 1)
        /\ last' = ScenarioCall("type_value", Shown(scenarios_container)[p].num, p, field, end)
        /\ UNCHANGED <<chatVars, fileVars, pipeVars, extVars>>

\* create_main_content: the placeholder and the add button
InitScenarios ==
    /\ scenarios_container = <<EmptyState, AddButton>>
    /\ changes = 0

(***************************************************************************)
(* Extraction pipeline (callbacks.py, parse_and_run_ai)                    *)
(***************************************************************************)
AiEndpoint == "app_config.ai_endpoint"

Status(kind, severity, rows, endpoint) ==
    [kind |-> kind, severity |-> severity, rows |-> rows, endpoint |-> endpoint]
NoStatus == Status("", "", 0, "")

Call(stmt, outcome) == [stmt |-> stmt, outcome |-> outcome]

\* f.lower().endswith('.pdf')
IsPdf(filename) == filename \in {"a.pdf", "b.pdf"}

\* The handler returns: its status is shown and it is no longer running.
Return(status) ==
    /\ pc' = "idle"
    /\ workflow_status' = status

Continue(step) ==
    /\ pc' = step
    /\ UNCHANGED workflow_status

\* A statement inside a try block: an exception ends the run with the status
\* of the enclosing except clause, anything else lets the run go on.
AfterStatementSwallow(o, next, status) == Continue(next)
AfterStatement(o, next, status) ==
    IF o = "raise" THEN Return(status) ELSE Continue(next)

\* What execute_query does with a statement: it raises, or returns None, an
\* empty table or a table with rows.
QueryOutcomes == {"raise", "none", "empty", "rows"}

\* parse_and_run_ai, dispatched for a click in session s: input validation.
parse_and_run_ai(s) ==
    /\ pc = "idle"
    /\ run_files' = upload_data[s]
    /\ issued' = <<>>
    /\ row_count' = 0
    /\ IF upload_data[s] = <<>>
       THEN Return(Status("please_upload", "warning", 0, ""))
       ELSE IF \E j \in 1..Len(upload_data[s]) : ~IsPdf(upload_data[s][j])
       THEN Return(Status("invalid_file_types", "error", 0, ""))
       ELSE Continue("upload")
    /\ UNCHANGED <<chatVars, fileVars, scenVars, storeVars, dbVars, panelVars, app_config,
                   btn_disabled, last>>

\* The click on "Extract Features" in session s, seen by the pipeline alone.
ClickExtract(s) ==
    /\ parse_and_run_ai(s)
    /\ UNCHANGED pending

\* Step 1: upload every file again; the first failure ends the run.
FirstFailure(sdk) ==
    IF \E j \in 1..Len(sdk) : sdk[j] # "ok" \/ ~workspace_client
    THEN CHOOSE j \in 1..Len(sdk) :
            /\ sdk[j] # "ok" \/ ~workspace_client
            /\ \A k \in 1..(j - 1) : sdk[k] = "ok" /\ workspace_client
    ELSE 0

StepUpload ==
    \E sdk \in [1..Len(run_files) -> SdkOutcomes] :
        LET fail == FirstFailure(sdk)
            done == IF fail = 0 THEN Len(run_files) ELSE fail
        IN
        /\ pc = "upload"
        /\ issued' = issued \o
                [j \in 1..done |->
                    Call("upload", IF j = fail THEN "raise" ELSE "ok")]
        /\ volume' = volume \cup
                {run_files[j] : j \in 1..(IF fail = 0 THEN done ELSE fail - 1)}
        /\ IF fail = 0 THEN Continue("parse")
           ELSE Return(Status("upload_failed", "error", 0, ""))
        /\ UNCHANGED <<chatVars, scenVars, extVars, last, run_files, row_count,
                       workspace_client, uploaded_files_info, upload_data,
                       pdf_list, pdf_management, upload_feedback>>

PipeFrame == UNCHANGED <<chatVars, fileVars, scenVars, extVars, last, run_files>>

\* The parse statement (CREATE OR REPLACE TABLE ... ai_parse_document).
StepParse ==
    \E o \in {"raise", "none"} :
        /\ pc = "parse"
        /\ issued' = Append(issued, Call("parse", o))
        /\ AfterStatement(o, "count", Status("parse_failed", "error", 0, ""))
        /\ UNCHANGED row_count
        /\ PipeFrame

\* count_result is None or count_result.empty or count == 0
CountIsEmptyIgnoresZero(o, count) == o \in {"none", "empty"}
CountIsEmpty(o, count) == o \in {"none", "empty"} \/ count = 0

\* The row-count check of the parsed table.
StepCount ==
    \E o \in QueryOutcomes : \E count \in 0..MaxRows :
        /\ pc = "count"
        /\ o = "rows" \/ count = 0
        /\ issued' = Append(issued, Call("count", IF o = "rows" /\ count = 0 THEN "zero" ELSE o))
        /\ IF o = "raise"
           THEN Return(Status("parse_failed", "error", 0, "")) /\ UNCHANGED row_count
           ELSE IF CountIsEmpty(o, count)
           THEN Return(Status("parsed_but_empty", "warning", 0, "")) /\ UNCHANGED row_count
           ELSE Continue("sample") /\ row_count' = count
        /\ PipeFrame

\* The sample of the parsed rows (logged only).
StepSample ==
    \E o \in QueryOutcomes :
        /\ pc = "sample"
        /\ issued' = Append(issued, Call("sample", o))
        /\ AfterStatement(o, "probe", Status("parse_failed", "error", 0, ""))
        /\ UNCHANGED row_count
        /\ PipeFrame

\* What follows the endpoint probe: the step to go on with, or the status
\* the run returns. "not_found" is an exception whose text holds
\* RESOURCE_DOES_NOT_EXIST or "does not exist".
ProbeOutcomes == QueryOutcomes \cup {"not_found"}

AfterProbeBestEffort(o, rows) ==
    IF o = "not_found"
    THEN [next |-> "idle", status |-> Status("endpoint_missing", "error", 0, AiEndpoint)]
    ELSE [next |-> "ai_batch", status |-> NoStatus]
AfterProbe(o, rows) ==
    IF o = "rows" THEN [next |-> "ai_batch", status |-> NoStatus]
    ELSE IF o \in {"none", "empty"}
    THEN [next |-> "idle", status |-> Status("probe_no_response", "success", rows, "")]
    ELSE IF o = "not_found"
    THEN [next |-> "idle", status |-> Status("endpoint_missing", "error", 0, AiEndpoint)]
    ELSE [next |-> "idle", status |-> Status("probe_failed", "success", rows, "")]

StepProbe ==
    \E o \in ProbeOutcomes :
        LET after == AfterProbe(o, row_count) IN
        /\ pc = "probe"
        /\ issued' = Append(issued, Call("probe", o))
        /\ IF after.next = "idle" THEN Return(after.status) ELSE Continue(after.next)
        /\ UNCHANGED row_count
        /\ PipeFrame

\* The batch AI invocation (CREATE OR REPLACE TABLE ... ai_query per row).
StepAiBatch ==
    \E o \in {"raise", "none"} :
        /\ pc = "ai_batch"
        /\ issued' = Append(issued, Call("ai_batch", o))
        /\ AfterStatement(o, "ai_count", Status("ai_table_failed", "error", 0, ""))
        /\ UNCHANGED row_count
        /\ PipeFrame

StepAiCount ==
    \E o \in QueryOutcomes :
        /\ pc = "ai_count"
        /\ issued' = Append(issued, Call("ai_count", o))
        /\ IF o = "raise" THEN Return(Status("ai_table_failed", "error", 0, ""))
           ELSE IF o \in {"none", "empty"}
           THEN Return(Status("ai_table_created", "success", row_count, ""))
           ELSE Continue("ai_debug")
        /\ UNCHANGED row_count
        /\ PipeFrame

StepAiDebug ==
    \E o \in QueryOutcomes :
        /\ pc = "ai_debug"
        /\ issued' = Append(issued, Call("ai_debug", o))
        /\ AfterStatement(o, "features", Status("ai_table_failed", "error", 0, ""))
        /\ UNCHANGED row_count
        /\ PipeFrame

\* The structured extraction (CREATE OR REPLACE TABLE ... get_json_object).
StepFeatures ==
    \E o \in {"raise", "none"} :
        /\ pc = "features"
        /\ issued' = Append(issued, Call("features", o))
        /\ AfterStatement(o, "preview", Status("features_failed", "error", 0, ""))
        /\ UNCHANGED row_count
        /\ PipeFrame

\* The preview of the extracted features.
StepPreview ==
    \E o \in QueryOutcomes :
        /\ pc = "preview"
        /\ issued' = Append(issued, Call("preview", o))
        /\ IF o = "raise" THEN Return(Status("features_failed", "error", 0, ""))
           ELSE IF o = "rows" THEN Return(Status("features_shown", "success", 0, ""))
           ELSE Return(Status("features_created", "success", row_count, ""))
        /\ UNCHANGED row_count
        /\ PipeFrame

InitPipeline ==
    /\ pc = "idle"
    /\ run_files = <<>>
    /\ issued = <<>>
    /\ row_count = 0
    /\ workflow_status = NoStatus

(***************************************************************************)
(* Storage clients (pricing_actuarial_app_v2/file_upload.py and the        *)
(* two-strategy client of nwag-uw/file_upload.py)                          *)
(***************************************************************************)
NwagVolumePath == "/Volumes/richa_sethi/nwag/uploaded_docs"
Contents == {"c1", "c2"}
PutNames == {"a.pdf", "b.pdf"}

\* files.upload(full_path, content, overwrite=True), and a copy onto
\* full_path: the blob at the path is replaced.
OverwriteKeepsOld(store, path, content) ==
    store \cup {[path |-> path, content |-> content]}
Overwrite(store, path, content) ==
    {b \in store : b.path # path} \cup {[path |-> path, content |-> content]}

\* What the constructor of the two-strategy client finds in its environment.
Environments ==
    [is_databricks : BOOLEAN,   \* one of the DATABRICKS_* variables is set
     dbutils : BOOLEAN,         \* `from databricks import dbutils` succeeds
     client : BOOLEAN,          \* WorkspaceClient(...) succeeds
     token : BOOLEAN]           \* DATABRICKS_TOKEN is set

\* nwag-uw FileUploadManager.__init__: the strategy is chosen here, once.
Construct(env) ==
    IF env.is_databricks
    THEN IF env.dbutils
         THEN [use_dbutils |-> TRUE, workspace_client |-> FALSE]
         ELSE [use_dbutils |-> FALSE, workspace_client |-> env.client]
    ELSE [use_dbutils |-> FALSE, workspace_client |-> env.client \/ env.token]

PutResult(path, error, tried_a, tried_b) ==
    [path |-> path, error |-> error, tried_a |-> tried_a, tried_b |-> tried_b]

\* nwag-uw upload_file_to_volume. `cp` is what the scratch-file copy does,
\* `sdk` what files.upload does.
NwagUpload(filename, cp, sdk) ==
    LET full_path == <<NwagVolumePath, filename>> IN
    IF use_dbutils /\ cp = "ok"
    THEN PutResult(full_path, "", TRUE, FALSE)
    ELSE IF nwag_client
    THEN IF sdk = "ok" THEN PutResult(full_path, "", use_dbutils, TRUE)
         ELSE PutResult(NoPath, "upload error", use_dbutils, TRUE)
    ELSE PutResult(NoPath, "Databricks connection not available. Please ensure ...",
                   use_dbutils, FALSE)

PutCall(client, filename, content, cp, sdk, r) ==
    [op |-> "upload_file_to_volume", client |-> client, filename |-> filename,
     content |-> content, cp |-> cp, sdk |-> sdk, ret |-> r,
     selected_a |-> use_dbutils, pre_blobs |-> blobs]

upload_file_to_volume_nwag(filename, content, cp, sdk) ==
    LET r == NwagUpload(filename, cp, sdk) IN
    /\ puts < MaxPuts
    /\ puts' = puts + 1
    /\ blobs' = IF r.path # NoPath THEN Overwrite(blobs, r.path, content) ELSE blobs
    \* the scratch file is removed only after a successful copy
    /\ scratch' = IF use_dbutils /\ cp # "ok" THEN scratch \cup {<<puts, filename>>}
                  ELSE scratch
    /\ last' = PutCall("nwag", filename, content, cp, sdk, r)
    /\ UNCHANGED <<use_dbutils, nwag_client, chatVars, fileVars, scenVars, pipeVars, dbVars, panelVars, app_config, btnVars>>

upload_file_to_volume_v2(filename, content, sdk) ==
    LET up == UploadFileToVolume(filename, sdk)
        r == PutResult(up.path, up.error, FALSE, workspace_client)
    IN
    /\ puts < MaxPuts
    /\ puts' = puts + 1
    /\ blobs' = IF up.ok THEN Overwrite(blobs, up.path, content) ELSE blobs
    /\ volume' = IF up.ok THEN volume \cup {filename} ELSE volume
    /\ last' = PutCall("v2", filename, content, "none", sdk, r)
    /\ UNCHANGED <<use_dbutils, nwag_client, scratch, chatVars, scenVars, pipeVars, dbVars, panelVars, app_config, btnVars,
                   workspace_client, uploaded_files_info, upload_data, pdf_list,
                   pdf_management, upload_feedback>>

PutNwag ==
    \E filename \in PutNames : \E content \in Contents :
    \E cp \in SdkOutcomes : \E sdk \in SdkOutcomes :
        upload_file_to_volume_nwag(filename, content, cp, sdk)

PutV2 ==
    \E filename \in PutNames : \E content \in Contents : \E sdk \in SdkOutcomes :
        upload_file_to_volume_v2(filename, content, sdk)

InitStorage ==
    /\ \E env \in Environments :
          /\ use_dbutils = Construct(env).use_dbutils
          /\ nwag_client = Construct(env).workspace_client
    /\ blobs = {}
    /\ scratch = {}
    /\ puts = 0

\* The two-strategy client as the other subsystems see it: constructed with
\* the direct strategy.
StorageFixed == ~use_dbutils /\ nwag_client

(***************************************************************************)
(* Warehouse client (database.py, DatabaseManager)                         *)
(***************************************************************************)
Statements == {"s1", "s2", "s3"}

\* The statement lists a caller passes: distinct statements, in any order.
QueryLists ==
    UNION { { q \in [1..n -> Statements] : \A i, j \in 1..n : i # j => q[i] # q[j] }
            : n \in 0..MaxQueries }

\* What the warehouse does with one statement: it fails, or completes with a
\* table, or completes with nothing to fetch (fetchall_arrow raises).
StatementOutcomes == {"table", "no_result", "raise"}

None == <<"None">>
Table(query) == <<"table", query>>
Fetched(query, o) == IF o = "table" THEN Table(query) ELSE None

LoopResult(raised, issued_queries, results) ==
    [raised |-> raised, issued |-> issued_queries, results |-> results]

\* The loop of execute_multiple_queries on one cursor: an exception of
\* cursor.execute leaves the loop; a failing fetch appends None.
RECURSIVE QueryLoopContinues(_, _, _, _)
QueryLoopContinues(queries, outcome, j, acc) ==
    IF j > Len(queries) THEN acc
    ELSE IF outcome[j] = "raise"
    THEN QueryLoopContinues(queries, outcome, j + 1,
            LoopResult(TRUE, Append(acc.issued, queries[j]), acc.results))
    ELSE QueryLoopContinues(queries, outcome, j + 1,
            LoopResult(acc.raised, Append(acc.issued, queries[j]),
                       Append(acc.results, Fetched(queries[j], outcome[j]))))
RECURSIVE QueryLoopPrepends(_, _, _, _)
QueryLoopPrepends(queries, outcome, j, acc) ==
    IF j > Len(queries) THEN acc
    ELSE IF outcome[j] = "raise"
    THEN LoopResult(TRUE, Append(acc.issued, queries[j]), acc.results)
    ELSE QueryLoopPrepends(queries, outcome, j + 1,
            LoopResult(FALSE, Append(acc.issued, queries[j]),
                       <<Fetched(queries[j], outcome[j])>> \o acc.results))
RECURSIVE QueryLoop(_, _, _, _)
QueryLoop(queries, outcome, j, acc) ==
    IF j > Len(queries) THEN acc
    ELSE IF outcome[j] = "raise"
    THEN LoopResult(TRUE, Append(acc.issued, queries[j]), acc.results)
    ELSE QueryLoop(queries, outcome, j + 1,
            LoopResult(FALSE, Append(acc.issued, queries[j]),
                       Append(acc.results, Fetched(queries[j], outcome[j]))))

NoResults == <<"raised">>

\* The try/except/finally around the statements, shared by execute_query and
\* execute_multiple_queries. `connect`, `cursor` and `cursor_close` are what
\* sql.connect, conn.cursor() and cursor.close() do.
DbCall(op, queries, connect, cursor, outcome, cursor_close) ==
    LET id == db_calls + 1
        conn_opened == connect = "ok"
        cursor_opened == conn_opened /\ cursor = "ok"
        loop == IF cursor_opened
                THEN QueryLoop(queries, outcome, 1, LoopResult(FALSE, <<>>, <<>>))
                ELSE LoopResult(TRUE, <<>>, <<>>)
        \* finally: if cursor: cursor.close(); if conn: conn.close()
        cursor_closed == cursor_opened /\ cursor_close = "ok"
        conn_closed == conn_opened /\ (cursor_opened => cursor_closed)
        raised == loop.raised \/ (cursor_opened /\ ~cursor_closed)
        took_effect == {queries[j] : j \in {k \in 1..Len(loop.issued) : outcome[k] # "raise"}}
    IN
    /\ db_calls < MaxDbCalls
    /\ db_calls' = id
    /\ open_conns' = IF conn_opened /\ ~conn_closed THEN open_conns \cup {id} ELSE open_conns
    /\ open_cursors' = IF cursor_opened /\ ~cursor_closed THEN open_cursors \cup {id}
                       ELSE open_cursors
    /\ applied' = applied \cup took_effect
    /\ last' = [op |-> op, queries |-> queries, outcome |-> outcome,
                issued |-> loop.issued, failed |-> loop.raised, raised |-> raised,
                ret |-> IF raised THEN NoResults
                        ELSE IF op = "execute_query" THEN loop.results[1]
                        ELSE loop.results,
                conn |-> id, conn_opened |-> conn_opened, cursor_opened |-> cursor_opened,
                pre_applied |-> applied, pre_conns |-> open_conns]
    /\ UNCHANGED <<chatVars, fileVars, scenVars, pipeVars, storeVars, panelVars, app_config, btnVars>>

\* The outcomes of the steps a call reaches; the steps it does not reach are
\* fixed, so that every choice is a different run of the call.
Reachable(queries, connect, cursor, outcome, cursor_close) ==
    /\ connect # "ok" => cursor = "ok"
    /\ (connect # "ok" \/ cursor # "ok") =>
          /\ cursor_close = "ok"
          /\ \A j \in 1..Len(queries) : outcome[j] = "table"
    /\ \A j \in 1..Len(queries) :
          outcome[j] = "raise" => \A k \in (j + 1)..Len(queries) : outcome[k] = "table"

execute_multiple_queries ==
    \E queries \in QueryLists :
    \E connect \in SdkOutcomes : \E cursor \in SdkOutcomes :
    \E outcome \in [1..Len(queries) -> StatementOutcomes] :
    \E cursor_close \in SdkOutcomes :
        /\ Reachable(queries, connect, cursor, outcome, cursor_close)
        /\ DbCall("execute_multiple_queries", queries, connect, cursor, outcome, cursor_close)

execute_query ==
    \E query \in Statements :
    \E connect \in SdkOutcomes : \E cursor \in SdkOutcomes :
    \E outcome \in [1..1 -> StatementOutcomes] :
    \E cursor_close \in SdkOutcomes :
        /\ Reachable(<<query>>, connect, cursor, outcome, cursor_close)
        /\ DbCall("execute_query", <<query>>, connect, cursor, outcome, cursor_close)

InitDatabase ==
    /\ db_calls = 0
    /\ open_conns = {}
    /\ open_cursors = {}
    /\ applied = {}

(***************************************************************************)
(* Configuration (config.py, AppConfig)                                    *)
(***************************************************************************)
Absent == "<absent>"          \* the key is not in the mapping / the variable is not set
NullValue == "<None>"         \* the key is there with a null value
PlainHost == "adb.example.net"
HttpsHost == "https://adb.example.net"
HttpHost == "http://adb.example.net"
ConfigKeys == {"host", "warehouse_http_path", "ai_endpoint"}

FileValues(key) ==
    IF key = "host" THEN {Absent, NullValue, PlainHost, HttpsHost, HttpHost}
    ELSE {Absent, NullValue, "file value"}
EnvValues(key) ==
    IF key = "host" THEN {Absent, PlainHost, HttpsHost}
    ELSE {Absent, "env value"}

\* What the constructor reads: app.yaml and the process environment.
ConfigInputs ==
    { in \in [section : BOOLEAN, use_env_vars : BOOLEAN,
              file : [ConfigKeys -> UNION {FileValues(k) : k \in ConfigKeys}],
              env : [ConfigKeys -> UNION {EnvValues(k) : k \in ConfigKeys}]] :
        /\ \A k \in ConfigKeys : in.file[k] \in FileValues(k) /\ in.env[k] \in EnvValues(k)
        /\ ~in.section => (~in.use_env_vars /\ \A k \in ConfigKeys : in.file[k] = Absent) }

\* dict.get(key): None for a missing key.
Get(mapping, key) == IF mapping[key] = Absent THEN NullValue ELSE mapping[key]

\* _load_config and _load_from_env: the "databricks" mapping after loading.
LoadConfig(in) ==
    IF in.section /\ in.use_env_vars
    THEN [k \in ConfigKeys |->
            IF in.env[k] # Absent THEN in.env[k] ELSE Get(in.file, k)]
    ELSE in.file

StartsWithScheme(db_host) == db_host \in {HttpsHost, HttpHost}

\* _validate_config: the error it raises, or "" when it passes.
ValidateConfig(in, databricks_config) ==
    IF ~in.section THEN "Missing required configuration key"
    ELSE IF \E k \in ConfigKeys : databricks_config[k] = Absent
    THEN "Missing required databricks configuration key"
    ELSE IF databricks_config["host"] = NullValue
    THEN "AttributeError: 'NoneType' object has no attribute 'startswith'"
    ELSE IF StartsWithScheme(databricks_config["host"])
    THEN "DATABRICKS_HOST should NOT include 'https://' or 'http://'"
    ELSE ""

NotConstructed == [constructed |-> FALSE, error |-> "", values |-> [k \in ConfigKeys |-> Absent]]

\* AppConfig.__init__ and the accessors of the instance it leaves.
AppConfig(in) ==
    LET databricks_config == LoadConfig(in)
        error == ValidateConfig(in, databricks_config)
    IN  IF error # "" THEN [constructed |-> FALSE, error |-> error,
                            values |-> [k \in ConfigKeys |-> Absent]]
        ELSE [constructed |-> TRUE, error |-> "", values |-> databricks_config]

ConstructAppConfig ==
    \E in \in ConfigInputs :
        /\ app_config' = AppConfig(in)
        /\ last' = [op |-> "AppConfig", input |-> in]
        /\ UNCHANGED <<chatVars, fileVars, scenVars, pipeVars, storeVars, dbVars, panelVars, btnVars>>

InitConfig == app_config = NotConstructed

(***************************************************************************)
(* Extract button (callbacks.py, update_button_state, reset_button_state)  *)
(***************************************************************************)
\* A click on the enabled button triggers the two callbacks that have its
\* n_clicks as Input.
ClickExtractButton ==
    /\ pc = "idle"
    /\ pending = {}
    /\ ~btn_disabled
    /\ pending' = {"update_button_state", "parse_and_run_ai"}
    /\ UNCHANGED <<btn_disabled, chatVars, fileVars, scenVars, pipeVars,
                   storeVars, dbVars, panelVars, app_config, last>>

\* update_button_state with n_clicks > 0: the busy label, disabled.
update_button_state ==
    /\ pc = "idle"
    /\ "update_button_state" \in pending
    /\ btn_disabled' = TRUE
    /\ pending' = pending \ {"update_button_state"}
    /\ UNCHANGED <<chatVars, fileVars, scenVars, pipeVars, storeVars, dbVars, panelVars,
                   app_config, last>>

\* The pipeline handler of the click; the status it returns will trigger
\* reset_button_state.
DispatchPipeline ==
    /\ "parse_and_run_ai" \in pending
    /\ parse_and_run_ai("A")
    /\ pending' = (pending \ {"parse_and_run_ai"}) \cup {"reset_button_state"}

\* "Success" in status or a cross or warning sign in status
StatusResetsButton(status) == status.severity \in {"success", "error", "warning"}

\* reset_button_state, dispatched once the pipeline handler has returned.
reset_button_state ==
    /\ pc = "idle"
    /\ "reset_button_state" \in pending
    /\ btn_disabled' = IF StatusResetsButton(workflow_status) THEN FALSE ELSE btn_disabled
    /\ pending' = pending \ {"reset_button_state"}
    /\ UNCHANGED <<chatVars, fileVars, scenVars, pipeVars, storeVars, dbVars, panelVars,
                   app_config, last>>

\* One file is selected before the first run.
SelectOneFile ==
    /\ pending = {}
    /\ issued = <<>>
    /\ UploadUpTo("A", 1)

InitButton ==
    /\ btn_disabled = FALSE
    /\ pending = {}

(***************************************************************************)
(* The reference feature panel (callbacks.py, ui_components.py)            *)
(***************************************************************************)
UploadDocs == "Upload docs"
NoData == "No data available"
Data == "data"

Placeholder == [surrender |-> UploadDocs, guarantee |-> UploadDocs, rate |-> UploadDocs]

\* "Success" in status_message: the status texts of parse_and_run_ai that
\* hold the word (none of them holds "No data available").
SaysSuccess(status) ==
    status.kind \in {"probe_no_response", "probe_failed", "ai_table_created",
                     "features_shown", "features_created"}

\* What a field shows for the column of the latest row: its text, or
\* "No data available" when the column is missing or null.
FieldTexts == {Data, NoData}

\* update_reference_specs_from_database, fired by a change of the status.
\* `alter` and `features` are what execute_query does with the two statements.
update_reference_specs_from_database(status_message, alter, features) ==
    /\ IF ~SaysSuccess(status_message)
       THEN /\ specs_issued' = <<>>
            /\ reference_specs' = Placeholder
       ELSE /\ specs_issued' = << Call("alter", alter), Call("features_latest", features) >>
            /\ IF features = "rows"
               THEN \E s \in FieldTexts, g \in FieldTexts, r \in FieldTexts :
                        reference_specs' = [surrender |-> s, guarantee |-> g, rate |-> r]
               ELSE reference_specs' = Placeholder
    /\ last' = [op |-> "update_reference_specs_from_database", status |-> status_message]

\* The click on "Extract Features": the status the run returns will trigger
\* the panel update.
ClickExtractThenPanel ==
    /\ pending = {}
    /\ parse_and_run_ai("A")
    /\ pending' = {"update_reference_specs_from_database"}

\* The panel update, dispatched once the pipeline handler has returned.
StatusTriggersPanel ==
    \E alter \in {"raise", "none"}, features \in QueryOutcomes :
        /\ pc = "idle"
        /\ "update_reference_specs_from_database" \in pending
        /\ update_reference_specs_from_database(workflow_status, alter, features)
        /\ pending' = pending \ {"update_reference_specs_from_database"}
        /\ UNCHANGED <<chatVars, fileVars, scenVars, pipeVars, storeVars, dbVars,
                       app_config, btn_disabled>>

\* create_main_content: the three fields show the placeholder
InitPanel ==
    /\ reference_specs = Placeholder
    /\ specs_issued = <<>>
Init ==
    /\ InitChat
    /\ InitFiles
    /\ InitScenarios
    /\ InitPipeline
    /\ InitStorage
    /\ InitDatabase
    /\ InitConfig
    /\ InitButton
    /\ InitPanel
    /\ last = NoCall

NextChat == GetResponse

\* The assistant does not read the storage client: it is taken as present.
InitChatOnly == Init /\ workspace_client /\ StorageFixed

SpecChat == InitChatOnly /\ [][NextChat]_vars

\* The assistant asked the keyword messages.
NextFallback == AskFallback

SpecFallback == InitChatOnly /\ [][NextFallback]_vars

\* One user in one session tab.
NextFiles == Upload("A") \/ ClickRemovePdf("A") \/ ForgedRemovePdf("A")

\* The file handlers do not read the assistant: it is taken as connected.
InitFilesOnly == Init /\ connection /\ StorageFixed

SpecFiles == InitFilesOnly /\ [][NextFiles]_vars

\* Two browser sessions served by the one process.
NextTwoSessions ==
    \/ UploadUpTo("A", MaxSharedBatch)
    \/ UploadUpTo("B", MaxSharedBatch)
    \/ ClickRemovePdf("A")
    \/ ClickRemovePdf("B")

SpecTwoSessions == InitFilesOnly /\ [][NextTwoSessions]_vars

\* The scenario handlers read neither the assistant nor the storage client.
InitScenariosOnly == Init /\ connection /\ workspace_client /\ StorageFixed

NextScenarios == ClickAddScenario \/ ClickRemoveScenario \/ ClickStepper \/ TypeValue

SpecScenarios == InitScenariosOnly /\ [][NextScenarios]_vars

\* The pipeline does not read the assistant.
InitPipelineOnly == Init /\ connection /\ StorageFixed

\* The files are selected before the first run that reaches the volume; the
\* later runs of a behaviour extract the same selection again.
SelectFiles ==
    /\ issued = <<>>
    /\ UploadUpTo("A", MaxPipelineBatch)

NextPipeline ==
    \/ SelectFiles
    \/ ClickExtract("A")
    \/ StepUpload
    \/ StepParse
    \/ StepCount
    \/ StepSample
    \/ StepProbe
    \/ StepAiBatch
    \/ StepAiCount
    \/ StepAiDebug
    \/ StepFeatures
    \/ StepPreview

SpecPipeline == InitPipelineOnly /\ [][NextPipeline]_vars

\* The pipeline with the remove buttons in use between the runs.
NextRemoveThenExtract ==
    \/ SelectFiles
    \/ ClickRemovePdf("A")
    \/ ClickExtract("A")
    \/ StepUpload
    \/ StepParse
    \/ StepCount
    \/ StepSample
    \/ StepProbe
    \/ StepAiBatch
    \/ StepAiCount
    \/ StepAiDebug
    \/ StepFeatures
    \/ StepPreview

SpecRemoveThenExtract == InitPipelineOnly /\ [][NextRemoveThenExtract]_vars

\* The storage clients read neither the assistant nor the dashboard.
InitStorageOnly == Init /\ connection

NextStorage == PutV2 \/ PutNwag

SpecStorage == InitStorageOnly /\ [][NextStorage]_vars

\* The warehouse client reads neither the assistant nor the storage clients.
InitDatabaseOnly == Init /\ connection /\ workspace_client /\ StorageFixed

NextDatabase == execute_query \/ execute_multiple_queries

SpecDatabase == InitDatabaseOnly /\ [][NextDatabase]_vars

NextConfig == ConstructAppConfig

\* The configuration is read from its file and the environment only.
InitConfigOnly == Init /\ connection /\ workspace_client /\ StorageFixed

SpecConfig == InitConfigOnly /\ [][NextConfig]_vars

NextButton ==
    \/ SelectOneFile
    \/ ClickExtractButton
    \/ update_button_state
    \/ DispatchPipeline
    \/ reset_button_state
    \/ StepUpload
    \/ StepParse
    \/ StepCount
    \/ StepSample
    \/ StepProbe
    \/ StepAiBatch
    \/ StepAiCount
    \/ StepAiDebug
    \/ StepFeatures
    \/ StepPreview

SpecButton == InitPipelineOnly /\ [][NextButton]_vars

\* The pipeline with the panel update that its status triggers.
NextPanel ==
    \/ SelectOneFile
    \/ ClickExtractThenPanel
    \/ StatusTriggersPanel
    \/ StepUpload
    \/ StepParse
    \/ StepCount
    \/ StepSample
    \/ StepProbe
    \/ StepAiBatch
    \/ StepAiCount
    \/ StepAiDebug
    \/ StepFeatures
    \/ StepPreview

SpecPanel == InitPipelineOnly /\ [][NextPanel]_vars

(***************************************************************************)
(* Claims about the conversational assistant, checked under SpecChat       *)
(***************************************************************************)
Min(a, b) == IF a < b THEN a ELSE b

\* The last min(20, total) entries of a log, in order.
Window(log) ==
    LET n == Min(HistoryLimit, Len(log))
    IN  [i \in 1..n |-> log[Len(log) - n + i]]

\* C3: the history never holds more than 20 entries and always equals the
\* last min(20, total) entries ever appended, in append order (the oldest
\* entries are the ones dropped).
C3_HistoryIsLastTwenty ==
    /\ Len(conversation_history) <= HistoryLimit
    /\ conversation_history = Window(appended)

C3_Witness ==
    /\ last.op = "get_response"
    /\ Len(appended) >= HistoryLimit + 3
    /\ Len(conversation_history) = HistoryLimit

\* C4: every get_response call, in PRIMARY or in FALLBACK mode, appends
\* exactly one user entry followed by exactly one assistant entry.
C4_OnePairPerTurn ==
    last.op = "get_response" =>
        SubSeq(appended, last.pre_len + 1, Len(appended)) =
            << Entry("user", UserContent(last.message)),
               Entry("assistant", last.ret) >>

\* C5: get_response never propagates an error; without a connection, or when
\* the primary invocation raises or returns nothing, it returns the non-empty
\* fallback answer, and the history then holds the user turn and ends with
\* the fallback assistant turn.
C5_FallbackNeverRaises ==
    last.op = "get_response" =>
        /\ ~last.raised
        /\ last.ret[1] # ""
        /\ last.mode # "primary" =>
              /\ last.ret = FallbackText(last.message)
              /\ \E i \in 1..Len(conversation_history) :
                    conversation_history[i] = Entry("user", UserContent(last.message))
              /\ conversation_history[Len(conversation_history)] =
                    Entry("assistant", FallbackText(last.message))

C5_Witness ==
    /\ last.op = "get_response"
    /\ last.mode = "fallback_exception"
    /\ connection
    /\ last.ret = FallbackText(last.message)

(***************************************************************************)
(* Claims about the uploaded-file list, checked under SpecFiles            *)
(***************************************************************************)
\* A list without its entry at position i (from 0).
RemoveAt(list, i) == SubSeq(list, 1, i) \o SubSeq(list, i + 2, Len(list))

\* C1: a remove-file trigger with an index i below the length N of the file
\* list leaves a list of length N-1 holding all other entries in their
\* previous order, in the stored list and in the displayed list.
C1_RemoveKeepsOthersInOrder ==
    last.op = "remove_pdf_file" =>
        /\ last.index < Len(last.pre_info) =>
              /\ Len(uploaded_files_info) = Len(last.pre_info) - 1
              /\ uploaded_files_info = RemoveAt(last.pre_info, last.index)
        /\ last.index < Len(last.pre_list) =>
              /\ Len(pdf_list[last.session]) = Len(last.pre_list) - 1
              /\ pdf_list[last.session] = RemoveAt(last.pre_list, last.index)

C1_Witness ==
    /\ last.op = "remove_pdf_file"
    /\ last.index = 1
    /\ Len(last.pre_info) = 3
    /\ Len(last.pre_list) = 3
    /\ Len(uploaded_files_info) = 2

\* C2: an upload batch of n files is attempted file by file; the resulting
\* list has n entries in input order, entry j 'uploaded' with its storage
\* path when file j succeeded and 'failed' with no path and an error text
\* otherwise; with k < n successes the message reports k/n.
C2_BatchIsolatesFailures ==
    (last.op = "handle_upload_feedback" /\ last.batch # <<>>) =>
        LET n == Len(last.batch)
            succeeded == {j \in 1..n : workspace_client /\ last.sdk[j] = "ok"}
            k == Cardinality(succeeded)
        IN  /\ last.attempted = last.batch
            /\ Len(uploaded_files_info) = n
            /\ Len(pdf_list[last.session]) = n
            /\ \A j \in 1..n :
                  /\ uploaded_files_info[j].filename = last.batch[j]
                  /\ pdf_list[last.session][j].filename = last.batch[j]
                  /\ IF j \in succeeded
                     THEN /\ uploaded_files_info[j].status = "uploaded"
                          /\ uploaded_files_info[j].volume_path = <<VolumePath, last.batch[j]>>
                     ELSE /\ uploaded_files_info[j].status = "failed"
                          /\ uploaded_files_info[j].volume_path = <<>>
                          /\ uploaded_files_info[j].error # ""
            /\ k < n => upload_feedback[last.session] =
                            [kind |-> "k_of_n_uploaded", k |-> k, n |-> n]

C2_Witness ==
    /\ last.op = "handle_upload_feedback"
    /\ Len(last.batch) = 3
    /\ workspace_client
    /\ last.sdk = <<"ok", "error", "ok">>
    /\ upload_feedback[last.session] = [kind |-> "k_of_n_uploaded", k |-> 2, n |-> 3]
    /\ uploaded_files_info[3].status = "uploaded"

\* C17: a remove-file trigger whose payload is malformed, or whose index is out
\* of range for the stored list, leaves the stored and the displayed file list
\* exactly as they were.
C17_BadTriggerKeepsState ==
    (\/ last.op = "remove_pdf_file_bad_id"
     \/ last.op = "remove_pdf_file" /\ last.index >= Len(last.pre_info)) =>
        /\ uploaded_files_info = last.pre_info
        /\ pdf_list[last.session] = last.pre_list

\* C18: in every session the remove button beside the entry at position p
\* (from 0) carries index p, and a click on a displayed remove button removes
\* the entry of the file it is displayed beside.
C18_IndicesAreDense ==
    /\ \A s \in Sessions : \A p \in 1..Len(pdf_list[s]) : pdf_list[s][p].index = p - 1
    /\ last.op = "remove_pdf_file" =>
          \A p \in 1..Len(last.pre_list) :
              last.pre_list[p].index = last.index =>
                  /\ last.filename = last.pre_list[p].filename
                  /\ pdf_list[last.session] = RemoveAt(last.pre_list, p - 1)

IsPrefix(a, b) == Len(a) <= Len(b) /\ SubSeq(b, 1, Len(a)) = a

\* C19: every step either keeps the entries of the stored list in place and
\* possibly adds entries after them, or removes the entry at one index.
C19_OnlyAppendOrRemoveOne ==
    [][\/ IsPrefix(uploaded_files_info, uploaded_files_info')
       \/ \E i \in 0..(Len(uploaded_files_info) - 1) :
             uploaded_files_info' = RemoveAt(uploaded_files_info, i)]_vars

(***************************************************************************)
(* Claims about the scenario container, checked under SpecScenarios        *)
(***************************************************************************)
FieldMax(field) == IF field = "rate" THEN MaxRateTenths ELSE MaxPeriod

\* C6: the periods of every scenario stay in [0,30] and its rate in [0.0,10.0]
\* (0..100 tenths), and a stepper click on a displayed scenario changes the
\* targeted value of that scenario by exactly one step when the result is in
\* range and leaves it at the boundary otherwise.
C6_StepperClampsAndStepsByOne ==
    /\ \A k \in 1..Len(Shown(scenarios_container)) : \A f \in StepperFields :
          Shown(scenarios_container)[k][f] \in 0..FieldMax(f)
    /\ last.op = "update_stepper_values" =>
          LET old == Shown(last.pre)[last.pos][last.field]
              new == Shown(scenarios_container)[last.pos][last.field]
              target == IF last.dir = "up" THEN old + 1 ELSE old - 1
          IN  new = IF target \in 0..FieldMax(last.field) THEN target ELSE old

\* C7: the container holds exactly one empty-state placeholder when it holds no
\* scenario and none when it holds one or more, after any sequence of add and
\* remove actions (so removing the last scenario puts the placeholder back and
\* adding from the empty state clears it).
C7_PlaceholderIffNoScenario ==
    LET placeholders == Len(SelectSeq(scenarios_container, IsEmptyState))
    IN  IF ScenarioCount(scenarios_container) = 0
        THEN placeholders = 1
        ELSE placeholders = 0

C7_Witness ==
    /\ last.op = "remove_scenario"
    /\ ScenarioCount(last.pre) = 1
    /\ ScenarioCount(scenarios_container) = 0
    /\ Len(SelectSeq(scenarios_container, IsEmptyState)) = 1

(***************************************************************************)
(* Claims about the extraction pipeline, checked under SpecPipeline        *)
(***************************************************************************)
Has(stmt) == \E i \in 1..Len(issued) : issued[i].stmt = stmt

\* C8: when the parse statement succeeds and the parsed table has zero rows,
\* the count check is the last statement of the run, the run returns the
\* 'parsed but empty' warning, and no probe, batch AI or extraction statement
\* is issued.
C8_EmptyParseStopsRun ==
    \A i \in 2..Len(issued) :
        (issued[i - 1] = Call("parse", "none") /\ issued[i] = Call("count", "zero")) =>
            /\ i = Len(issued)
            /\ pc = "idle"
            /\ workflow_status.kind = "parsed_but_empty"
            /\ workflow_status.severity = "warning"
            /\ ~Has("probe") /\ ~Has("ai_batch") /\ ~Has("features")

C8_Witness ==
    /\ Len(issued) >= 3
    /\ issued[Len(issued)] = Call("count", "zero")
    /\ issued[Len(issued) - 1] = Call("parse", "none")
    /\ pc = "idle"
    /\ workflow_status.kind = "parsed_but_empty"

ProbeNotFoundAborts(i) ==
    issued[i] = Call("probe", "not_found") =>
        /\ i = Len(issued)
        /\ pc = "idle"
        /\ workflow_status.kind = "endpoint_missing"
        /\ workflow_status.severity = "error"
        /\ workflow_status.endpoint = AiEndpoint

OtherProbeFailure(i) ==
    /\ issued[i].stmt = "probe"
    /\ issued[i].outcome \in {"raise", "none", "empty"}

\* C9 as stated: endpoint-not-found aborts the run with an error that names
\* the configured endpoint; after any other probe failure the batch AI
\* invocation is still executed in that run.
C9_OtherProbeFailuresContinue ==
    \A i \in 1..Len(issued) :
        /\ ProbeNotFoundAborts(i)
        /\ OtherProbeFailure(i) => (pc = "ai_batch" \/ Has("ai_batch"))

\* C9: endpoint-not-found aborts the run with an error that names the
\* configured endpoint; any other probe failure ends the run as well, with a
\* 'Success! Parsed N documents. AI endpoint test failed' status, and the
\* batch AI invocation is not executed.
C9_EveryProbeFailureEndsRun ==
    \A i \in 1..Len(issued) :
        /\ ProbeNotFoundAborts(i)
        /\ OtherProbeFailure(i) =>
              /\ i = Len(issued)
              /\ pc = "idle"
              /\ workflow_status.kind =
                    (IF issued[i].outcome = "raise" THEN "probe_failed"
                                                    ELSE "probe_no_response")
              /\ workflow_status.severity = "success"
              /\ workflow_status.rows = row_count
              /\ row_count > 0
              /\ ~Has("ai_batch")

C9_Witness ==
    /\ issued # <<>>
    /\ issued[Len(issued)] = Call("probe", "raise")
    /\ pc = "idle"
    /\ workflow_status.kind = "probe_failed"

\* The order of the statements of a run, and the step each belongs to.
Rank(stmt) ==
    CASE stmt = "upload" -> 1 [] stmt = "parse" -> 2 [] stmt = "count" -> 3
      [] stmt = "sample" -> 4 [] stmt = "probe" -> 5 [] stmt = "ai_batch" -> 6
      [] stmt = "ai_count" -> 7 [] stmt = "ai_debug" -> 8
      [] stmt = "features" -> 9 [] stmt = "preview" -> 10

StepOf(stmt) ==
    CASE stmt = "upload" -> "upload"
      [] stmt = "parse" -> "parse"
      [] stmt \in {"count", "sample"} -> "row_count_check"
      [] stmt = "probe" -> "probe"
      [] stmt \in {"ai_batch", "ai_count", "ai_debug"} -> "batch_ai"
      [] stmt = "features" -> "extraction"
      [] stmt = "preview" -> "preview"

\* The except clause (stage) a statement is enclosed by.
StageOf(stmt) ==
    CASE stmt = "upload" -> "upload"
      [] stmt \in {"parse", "count", "sample"} -> "parse"
      [] stmt = "probe" -> "probe"
      [] stmt \in {"ai_batch", "ai_count", "ai_debug"} -> "batch_ai"
      [] stmt \in {"features", "preview"} -> "extraction"

Failed(c) ==
    \/ c.outcome \in {"raise", "not_found"}
    \/ c.stmt = "count" /\ c.outcome \in {"zero", "none", "empty"}
    \/ c.stmt = "probe" /\ c.outcome \in {"none", "empty"}

\* The step a status text names.
StepNamedBy(kind) ==
    CASE kind = "upload_failed" -> "upload"
      [] kind = "parse_failed" -> "parse"
      [] kind = "parsed_but_empty" -> "row_count_check"
      [] kind \in {"endpoint_missing", "probe_failed", "probe_no_response"} -> "probe"
      [] kind = "ai_table_failed" -> "batch_ai"
      [] kind = "features_failed" -> "extraction"
      [] OTHER -> "none"

StageNamedBy(kind) ==
    IF kind = "parsed_but_empty" THEN "parse" ELSE StepNamedBy(kind)

\* Statements are issued in the fixed order, none twice (one upload per file),
\* and only after every earlier one succeeded.
InOrderNoRetry ==
    /\ \A i \in 1..Len(issued) : \A j \in (i + 1)..Len(issued) :
          \/ Rank(issued[i].stmt) < Rank(issued[j].stmt)
          \/ issued[i].stmt = "upload" /\ issued[j].stmt = "upload"
    /\ Cardinality({i \in 1..Len(issued) : issued[i].stmt = "upload"}) <= Len(run_files)
    /\ \A i \in 1..(Len(issued) - 1) : ~Failed(issued[i])
    /\ pc \notin {"idle", "upload"} => Rank(pc) > Rank(issued[Len(issued)].stmt)
    /\ (issued # <<>> /\ Failed(issued[Len(issued)])) => pc = "idle"

\* C10 as stated: fixed order, nothing issued after a failure, no retry, and
\* the status returned after a failure is that of the step that failed.
C10_FailureStatusNamesStep ==
    /\ InOrderNoRetry
    /\ (issued # <<>> /\ Failed(issued[Len(issued)])) =>
          StepNamedBy(workflow_status.kind) = StepOf(issued[Len(issued)].stmt)

\* C10: fixed order, nothing issued after a failure, no retry, and the status
\* returned after a failure is that of the stage (except clause) the failing
\* statement belongs to: parse, row count and sample share one, batch AI and
\* its check queries share one, extraction and preview share one.
C10_FailureStatusNamesStage ==
    /\ InOrderNoRetry
    /\ (issued # <<>> /\ Failed(issued[Len(issued)])) =>
          StageNamedBy(workflow_status.kind) = StageOf(issued[Len(issued)].stmt)

C10_Witness ==
    /\ Len(issued) >= 6
    /\ issued[Len(issued)] = Call("ai_batch", "raise")
    /\ pc = "idle"
    /\ workflow_status.kind = "ai_table_failed"
    /\ ~Has("features")

(***************************************************************************)
(* Claims about the storage clients, checked under SpecStorage             *)
(***************************************************************************)
BlobsAt(path) == {b \in blobs : b.path = path}

PrefixOf(client) == IF client = "v2" THEN VolumePath ELSE NwagVolumePath

\* C11: a put that succeeds returns prefix/filename and leaves exactly one blob
\* at that path, holding the content just uploaded, whether or not a blob was
\* there before; the other blobs are untouched.
C11_PutOverwrites ==
    (last.op = "upload_file_to_volume" /\ last.ret.path # NoPath) =>
        LET path == <<PrefixOf(last.client), last.filename>> IN
        /\ last.ret.path = path
        /\ BlobsAt(path) = {[path |-> path, content |-> last.content]}
        /\ {b \in blobs : b.path # path} = {b \in last.pre_blobs : b.path # path}

\* A second upload of a name whose blob holds other content.
C11_Witness ==
    /\ last.op = "upload_file_to_volume"
    /\ last.ret.path # NoPath
    /\ \E b \in last.pre_blobs : b.path = last.ret.path /\ b.content # last.content
    /\ Cardinality(blobs) = Cardinality(last.pre_blobs)

\* C12: when the scratch-file strategy was selected at construction and fails
\* for an upload, the direct upload is attempted for the same file, and the
\* call raises only when both were attempted and failed.
C12_FallsThroughToDirectUpload ==
    (/\ last.op = "upload_file_to_volume"
     /\ last.client = "nwag"
     /\ last.selected_a
     /\ last.cp # "ok") =>
        /\ last.ret.tried_a
        /\ last.ret.tried_b
        /\ last.ret.path = NoPath => last.sdk # "ok"

(***************************************************************************)
(* Claims about the warehouse client, checked under SpecDatabase           *)
(***************************************************************************)
\* C13: execute_multiple_queries issues the statements in list order on the
\* one connection and cursor of the call, each after the previous completed;
\* when it returns, the list has one entry per statement in the same order:
\* the statement's table, or None when it had no tabular result.
C13_ResultsInListOrder ==
    last.op = "execute_multiple_queries" =>
        /\ \E n \in 0..Len(last.queries) : last.issued = SubSeq(last.queries, 1, n)
        /\ \A j \in 2..Len(last.issued) : last.outcome[j - 1] # "raise"
        /\ last.issued # <<>> => last.conn_opened /\ last.cursor_opened
        /\ ~last.raised =>
              /\ last.issued = last.queries
              /\ Len(last.ret) = Len(last.queries)
              /\ \A j \in 1..Len(last.queries) :
                    last.ret[j] = IF last.outcome[j] = "table"
                                  THEN <<"table", last.queries[j]>>
                                  ELSE <<"None">>

C13_Witness ==
    /\ last.op = "execute_multiple_queries"
    /\ ~last.raised
    /\ Len(last.queries) = 2
    /\ last.ret[1] = <<"None">>
    /\ last.ret[2] = <<"table", last.queries[2]>>

\* C14: when statement j fails, the statements issued are exactly 1..j, each
\* once, the call raises and returns no list, and what statements 1..j-1 did
\* stays in the warehouse.
C14_FailureEndsSequence ==
    (last.op = "execute_multiple_queries" /\ last.failed /\ last.cursor_opened) =>
        \E j \in 1..Len(last.queries) :
            /\ last.outcome[j] = "raise"
            /\ last.issued = SubSeq(last.queries, 1, j)
            /\ last.raised
            /\ last.ret = <<"raised">>
            /\ \A k \in 1..(j - 1) : last.queries[k] \in applied
            /\ last.pre_applied \subseteq applied

C14_Witness ==
    /\ last.op = "execute_multiple_queries"
    /\ Len(last.queries) = 2
    /\ last.outcome[1] = "raise"
    /\ last.issued = <<last.queries[1]>>
    /\ last.raised

\* C15: every call opens its own connection, and after the call, whatever its
\* exit path, no connection and no cursor opened by the client is open.
C15_NothingLeftOpen ==
    /\ open_conns = {}
    /\ open_cursors = {}
    /\ last.op \in {"execute_query", "execute_multiple_queries"} =>
          last.conn \notin last.pre_conns

(***************************************************************************)
(* Claims about the configuration, checked under SpecConfig                *)
(***************************************************************************)
\* The effective value of a key: the file value after the optional override.
Effective(in, k) ==
    IF in.section /\ in.use_env_vars /\ in.env[k] # Absent THEN in.env[k] ELSE in.file[k]

\* C16: construction fails exactly when the effective configuration lacks a
\* value for the host, the warehouse path or the endpoint, or the effective
\* host starts with http:// or https://; otherwise the accessors return the
\* effective values.
C16_ConstructionValidatesEffectiveConfig ==
    last.op = "AppConfig" =>
        LET in == last.input
            invalid ==
                \/ \E k \in ConfigKeys : Effective(in, k) \in {Absent, NullValue}
                \/ Effective(in, "host") \in {HttpsHost, HttpHost}
        IN  /\ app_config.constructed <=> ~invalid
            /\ app_config.constructed =>
                  \A k \in ConfigKeys : app_config.values[k] = Effective(in, k)

(***************************************************************************)
(* Claims about the extract button, checked under SpecButton               *)
(***************************************************************************)
\* C20: once the handlers of a click have all been dispatched and the run's
\* status is shown, the button is enabled again, in whatever order the busy
\* handler, the pipeline handler and the reset handler were dispatched.
C20_ButtonEnabledAfterRun ==
    (pending = {} /\ pc = "idle") => ~btn_disabled

(***************************************************************************)
(* Claims about scenario numbering, checked under SpecScenarios            *)
(***************************************************************************)
\* C21: the number given to a scenario when it is added is the count of
\* scenarios present at that moment plus one (the scenarios already shown stay
\* as they were, and the new one, keyed by that number, comes last); the
\* number is therefore not stable, and add, add, remove 1, add yields a new
\* scenario whose number equals that of a scenario still shown.
C21_NumberIsCountPlusOne ==
    last.op = "add_scenario" =>
        LET shown == Shown(scenarios_container) IN
        /\ Len(shown) = ScenarioCount(last.pre) + 1
        /\ SubSeq(shown, 1, Len(shown) - 1) = Shown(last.pre)
        /\ shown[Len(shown)] = NewScenario(ScenarioCount(last.pre) + 1)

\* The collision: the scenario just added carries the number of another
\* scenario that is still shown.
C21_Witness ==
    /\ last.op = "add_scenario"
    /\ LET shown == Shown(scenarios_container) IN
       \E k \in 1..(Len(shown) - 1) : shown[k].num = shown[Len(shown)].num

(***************************************************************************)
(* Claims about the assistant's prompt and its canned answers              *)
(***************************************************************************)
\* C22: in PRIMARY mode the request sent to the hosted model carries the user
\* turn together with the (at most 20) most recent history entries, so that
\* with earlier turns in the history the prompt differs from the prompt the
\* same message gets with no history.  Checked under SpecChat.
C22_PromptCarriesHistory ==
    (last.op = "get_response" /\ last.mode = "primary" /\ last.pre_len > 0) =>
        last.prompt # FullPrompt(<<>>, last.message)

\* C23 as stated: the pricing bucket ("pricing", "premium", "rate") is tried
\* first, then "actuary", then "risk" or "underwriting", then the greeting
\* words, then the generic text.  Checked under SpecFallback.
C23_PricingBucketFirst ==
    (last.op = "get_response" /\ last.mode # "primary") =>
        LET text == Lower(last.message) IN
        last.ret[1] =
            IF AnyWord(text, {<<"p","r","i","c","i","n","g">>, <<"p","r","e","m","i","u","m">>, <<"r","a","t","e">>})
            THEN "pricing"
            ELSE IF AnyWord(text, {<<"a","c","t","u","a","r","y">>}) THEN "actuarial"
            ELSE IF AnyWord(text, {<<"r","i","s","k">>, <<"u","n","d","e","r","w","r","i","t","i","n","g">>})
            THEN "risk"
            ELSE IF AnyWord(text, GreetingWords) THEN "greeting"
            ELSE "generic"

\* C23, amended: in FALLBACK mode the answer is chosen by keyword containment
\* in the lower-cased user message alone, the buckets tried in this order:
\* actuary/actuaries/actuarial, then pricing/price/premium/rate, then
\* risk/assessment/underwriting, then hello/hi/help/assist, then the generic
\* text; changing the letter case of the message never changes the bucket.
C23_ActuarialBucketFirst ==
    (last.op = "get_response" /\ last.mode # "primary") =>
        LET text == Lower(last.message)
            expected == IF AnyWord(text, ActuaryWords) THEN "actuarial"
                        ELSE IF AnyWord(text, PricingWords) THEN "pricing"
                        ELSE IF AnyWord(text, RiskWords) THEN "risk"
                        ELSE IF AnyWord(text, GreetingWords) THEN "greeting"
                        ELSE "generic"
        IN  /\ last.ret[1] = expected
            /\ FallbackText(Upper(last.message))[1] = expected
            /\ FallbackText(Lower(last.message))[1] = expected

\* A message naming both an actuary keyword and a pricing keyword, in mixed
\* case, answered with the actuarial text.
C23_Witness ==
    /\ last.op = "get_response"
    /\ last.mode # "primary"
    /\ last.message = MsgActuaryRate
    /\ last.ret[1] = "actuarial"

(***************************************************************************)
(* Claims about files and sessions                                         *)
(***************************************************************************)
Names(uploaded_files) == [j \in 1..Len(uploaded_files) |-> uploaded_files[j].filename]
Range(list) == {list[j] : j \in 1..Len(list)}

\* C24: the list of uploaded files is one process-wide list with no session
\* isolation: an upload of any session replaces it with that upload's files,
\* and a remove click of any session deletes from storage the file found at
\* the clicked index of that list, whichever session uploaded it; so after B
\* uploaded between A's upload and A's remove click, A's removal can delete a
\* file B uploaded.  Checked under SpecTwoSessions.
C24_RemovalUsesSharedList ==
    /\ (last.op = "handle_upload_feedback" /\ last.batch # <<>>) =>
          Names(uploaded_files_info) = last.batch
    /\ last.op = "remove_pdf_file" =>
          /\ last.filename = IF Len(last.pre_info) > last.index
                             THEN last.pre_info[last.index + 1].filename
                             ELSE NoFilename
          /\ last.deleted = "true" => last.filename \notin volume

\* A's remove click deleted from storage a file that B selected and A did
\* not, while A's button showed another file.
C24_Witness ==
    /\ last.op = "remove_pdf_file"
    /\ last.session = "A"
    /\ last.deleted = "true"
    /\ last.filename \in Range(upload_data["B"])
    /\ last.filename \notin Range(upload_data["A"])
    /\ \E p \in 1..Len(last.pre_list) :
          /\ last.pre_list[p].index = last.index
          /\ last.pre_list[p].filename # last.filename

\* C25: within one session, after an upload of files or a remove click the
\* displayed list and the stored list agree: same length, and the same file
\* at each position.  Checked under SpecFiles.
C25_DisplayedAndStoredAgree ==
    (\/ last.op = "handle_upload_feedback" /\ last.batch # <<>>
     \/ last.op = "remove_pdf_file") =>
        /\ Len(pdf_list["A"]) = Len(uploaded_files_info)
        /\ \A j \in 1..Len(pdf_list["A"]) :
              pdf_list["A"][j].filename = uploaded_files_info[j].filename

\* C26: a file removed with its remove button is not put back into storage by
\* a later extract run: when the parse statement of a run is issued after a
\* removal that deleted the file, the file is not among the blobs under the
\* prefix.  Checked under SpecRemoveThenExtract.
C26_RemovedFileStaysRemoved ==
    (/\ last.op = "remove_pdf_file"
     /\ last.deleted = "true"
     /\ issued # <<>>
     /\ issued[Len(issued)].stmt = "parse") =>
        last.filename \notin volume

(***************************************************************************)
(* Claims about removing scenarios and stepping their values               *)
(***************************************************************************)
\* C27: a click on the remove button of a scenario lowers the number of
\* scenarios shown by exactly one, and every other scenario stays, in its
\* previous relative order.  Checked under SpecScenarios.
C27_RemoveDropsExactlyOne ==
    last.op = "remove_scenario" =>
        /\ ScenarioCount(scenarios_container) = ScenarioCount(last.pre) - 1
        /\ Shown(scenarios_container) = RemoveAt(Shown(last.pre), last.pos - 1)

\* C28: a stepper click for field f of a scenario shown changes only that
\* field of that scenario: every other field and every other scenario keeps
\* its value, and each of the three returned lists has exactly one entry per
\* scenario shown.  Checked under SpecScenarios.
C28_StepperTouchesOneField ==
    last.op = "update_stepper_values" =>
        LET out == update_stepper_values(last.field, last.dir, last.num,
                        Vals(last.pre, "surrender"),
                        Vals(last.pre, "guarantee"),
                        Vals(last.pre, "rate"))
        IN  /\ \A f \in StepperFields : Len(out[f]) = Len(Shown(last.pre))
            /\ Len(Shown(scenarios_container)) = Len(Shown(last.pre))
            /\ \A k \in 1..Len(Shown(last.pre)) : \A f \in StepperFields :
                  (k # last.pos \/ f # last.field) =>
                      Shown(scenarios_container)[k][f] = Shown(last.pre)[k][f]

(***************************************************************************)
(* Claims about the reference feature panel, checked under SpecPanel       *)
(***************************************************************************)
\* The statuses of a run that stopped before the structured extraction:
\* empty parse output, a failed probe or an empty probe result, a failed or
\* empty AI responses table.
StoppedEarly(status) ==
    status.kind \in {"parsed_but_empty", "endpoint_missing", "probe_failed",
                     "probe_no_response", "ai_table_failed", "ai_table_created"}

\* C29: after a run that stopped early the status-triggered panel update
\* issues no warehouse statement and the three panel fields show the
\* 'Upload docs' placeholder.
C29_EarlyStopShowsPlaceholder ==
    (last.op = "update_reference_specs_from_database" /\ StoppedEarly(last.status)) =>
        /\ specs_issued = <<>>
        /\ reference_specs = Placeholder

(***************************************************************************)
(* Claims about scratch files, checked under SpecStorage                   *)
(***************************************************************************)
\* C30: with the dbutils strategy the local scratch file written for an
\* upload is removed on every exit path: after any sequence of uploads,
\* whether the copy succeeded or failed, no scratch file remains.
C30_NoScratchFileRemains ==
    use_dbutils => scratch = {}
====
